---- MODULE Spec2Model ----
(***************************************************************************)
(* Measurement sweep engine of the HPC benchmark suite:                    *)
(*   run_stream_sweep  (src/src/stream_sweep.cpp)                          *)
(*   run_latency_bench (src/unnamed/part_005, latency_bench.cpp)           *)
(*   run_compute_bench (src/src/compute_bench.cpp)                         *)
(* together with the kernels, statistics and validator of                  *)
(* src/unnamed/part_001 (stream_kernels.hpp, utils.hpp).                   *)
(*                                                                         *)
(* Representation of values.  Every double the engine stores in a buffer   *)
(* of the bandwidth, dot and saxpy kernels is a small integer (1.0, 2.0,   *)
(* 3.0, 5.0, 6.0, 11.0, 0.0) and every checksum is a sum of fewer than     *)
(* 2^53 of them, so those doubles are modelled by the integers they hold.  *)
(* A value of the flops/fma buffer is modelled by the number of times      *)
(* x -> x*alpha + beta has been applied to 1.0.  Quotients (percentiles,   *)
(* bandwidth, variance) are kept as exact numerators and denominators.     *)
(***************************************************************************)
EXTENDS Integers, Sequences, FiniteSets, TLC

\* ------------------------------------------------------------------ bounds
MaxIters   == 2    \* conf.iters ranges over 1..MaxIters
MaxWarmup  == 1    \* conf.warmup ranges over 0..MaxWarmup
MaxTick    == 1    \* a measured kernel invocation takes 0..MaxTick clock ticks
MaxNodes   == 5    \* node counts of the explicit cycle builder: 2..MaxNodes
MaxElems   == 4    \* element counts of the explicit kernel arrays: 1..MaxElems
MaxCalls   == 3    \* invocations of a kernel on the explicit arrays
MaxSamples == 4    \* lengths of the sample vectors of the statistics functions
MaxValue   == 6    \* arguments of nearly_equal on its own: -MaxValue..MaxValue
MaxBuffers == 2    \* AlignedBuffer objects: 1..MaxBuffers
MaxBlocks  == 3    \* blocks the allocator hands out: 1..MaxBlocks

\* ------------------------------------------------- program constants
SizeofDouble   == 8
SizeofNode     == 64
PageBytes      == 4096
FullCheckLimit_4MiB == 4 * 1024 * 1024

FullCheckLimit_exclusive == 8 * 1024 * 1024 - 1

FullCheckLimit == 8 * 1024 * 1024
ChecksumTerms  == 1024
MinSteps       == 200000
MaxSteps       == 5000000
Inner          == 64
Alignment      == 64

Max2(a, b) == IF a >= b THEN a ELSE b
Min2(a, b) == IF a <= b THEN a ELSE b

\* ------------------------------------------------- sweep generators
\* for (k = lo; k <= hi; k *= 2) sizes.push_back(k * unit)
RECURSIVE DoublingLoop(_, _, _)
DoublingLoop(k, hi, unit) ==
  IF k <= hi THEN <<k * unit>> \o DoublingLoop(2 * k, hi, unit) ELSE <<>>

stream_build_sweep_bytes_from32MB ==
  DoublingLoop(32, 256, 1024) \o DoublingLoop(512, 8192, 1024)
    \o DoublingLoop(32, 512, 1024 * 1024)

stream_build_sweep_bytes ==
  DoublingLoop(32, 256, 1024) \o DoublingLoop(512, 8192, 1024)
    \o DoublingLoop(16, 512, 1024 * 1024)

latency_build_sweep_bytes ==
  DoublingLoop(4, 256, 1024) \o DoublingLoop(512, 8192, 1024)
    \o DoublingLoop(16, 256, 1024 * 1024)

bytes_to_elems(bytes) == bytes \div SizeofDouble
bytes_to_nodes_per_page(bytes) == bytes \div PageBytes

bytes_to_nodes(bytes) == bytes \div SizeofNode

\* ------------------------------------------------- stream kernels
StreamOps == {"Copy", "Scale", "Add", "Triad"}

stream_op_name(op) ==
  CASE op = "Copy"  -> "stream_copy"
    [] op = "Scale" -> "stream_scale"
    [] op = "Add"   -> "stream_add"
    [] op = "Triad" -> "stream_triad"

bytes_multiplier_two(op) == 2

bytes_multiplier(op) ==
  CASE op = "Copy"  -> 2
    [] op = "Scale" -> 2
    [] op = "Add"   -> 3
    [] op = "Triad" -> 3

kernel_elem_swapped(op, b, c, s) ==
  CASE op = "Copy"  -> c
    [] op = "Scale" -> s * c
    [] op = "Add"   -> b + b
    [] op = "Triad" -> c + s * b

\* the element assignment of kernel_copy/scale/add/triad: A[i] = f(B[i], C[i], s)
kernel_elem(op, b, c, s) ==
  CASE op = "Copy"  -> b
    [] op = "Scale" -> s * b
    [] op = "Add"   -> b + c
    [] op = "Triad" -> b + s * c

\* expected value per element, the switch of run_stream_sweep
expected_val(op, s) ==
  CASE op = "Copy"  -> 2
    [] op = "Scale" -> s * 2
    [] op = "Add"   -> 2 + 3
    [] op = "Triad" -> 2 + s * 3

\* ------------------------------------------------- validator
\* checksum_full over an explicit array (a sequence, element 0 at index 1)
RECURSIVE checksum_full(_)
checksum_full(data) ==
  IF data = <<>> THEN 0 ELSE Head(data) + checksum_full(Tail(data))

\* for (i = 0; i < size; i += stride) sum += data[i]
RECURSIVE SampledFrom(_, _, _)
SampledFrom(data, i, stride) ==
  IF i < Len(data) THEN data[i + 1] + SampledFrom(data, i + stride, stride)
  ELSE 0

checksum_sampled(data, stride) ==
  IF data = <<>> THEN 0
  ELSE SampledFrom(data, 0, IF stride = 0 THEN 1 ELSE stride)

\* number of indices 0, stride, 2*stride, ... below n visited by the loop
SampledCount(n, stride) ==
  LET st == IF stride = 0 THEN 1 ELSE stride
  IN  IF n = 0 THEN 0 ELSE (n + st - 1) \div st

Abs(x) == IF x < 0 THEN -x ELSE x

nearly_equal_by_first(a, b, rinv, ainv) ==
  Abs(a - b) <= ((rinv \div ainv) + Abs(a)) \div rinv

\* nearly_equal(a, b, rtol, atol) for integer-valued a and b, with
\* rtol = 1/rinv and atol = 1/ainv (ainv divides rinv):
\*   |a-b| <= atol + rtol*|b|   <=>   |a-b| * rinv <= rinv/ainv + |b|
\* and, |a-b| being an integer, <=> |a-b| <= (rinv/ainv + |b|) div rinv
nearly_equal(a, b, rinv, ainv) ==
  Abs(a - b) <= ((rinv \div ainv) + Abs(b)) \div rinv

\* ------------------------------------------------- statistics
RECURSIVE Insert(_, _)
Insert(x, s) ==
  IF s = <<>> THEN <<x>>
  ELSE IF x <= Head(s) THEN <<x>> \o s
  ELSE <<Head(s)>> \o Insert(x, Tail(s))

RECURSIVE Sort(_)
Sort(s) == IF s = <<>> THEN <<>> ELSE Insert(Head(s), Sort(Tail(s)))

RECURSIVE Sum(_)
Sum(s) == IF s = <<>> THEN 0 ELSE Head(s) + Sum(Tail(s))

RECURSIVE SumSq(_)
SumSq(s) == IF s = <<>> THEN 0 ELSE Head(s) * Head(s) + SumSq(Tail(s))

PctHi_floor(idx100) == idx100 \div 100

\* hi = ceil(idx), idx given in hundredths
PctHi(idx100) == (idx100 + 99) \div 100

\* 100 * percentile_ns(samples, p): idx = (p/100)*(n-1), lo = floor, hi = ceil
percentile_ns_x100(samples, p) ==
  IF samples = <<>> THEN 0
  ELSE LET sorted == Sort(samples)
           idx100 == p * (Len(sorted) - 1)
           lo     == idx100 \div 100
           hi     == PctHi(idx100)
           frac   == idx100 - 100 * lo
       IN  sorted[lo + 1] * (100 - frac) + sorted[hi + 1] * frac

StddevDivisor_bessel(n) == n - 1

\* variance /= samples.size()
StddevDivisor(n) == n

\* sum over the samples of (s - mean)^2 with mean = total / n, times n^2
RECURSIVE SumSqDev(_, _, _)
SumSqDev(s, n, total) ==
  IF s = <<>> THEN 0
  ELSE (n * Head(s) - total) * (n * Head(s) - total)
         + SumSqDev(Tail(s), n, total)

\* compute_stddev: first pass the mean, second pass the mean squared
\* deviation; the variance is kept as the fraction num/den and the value
\* returned is its square root
compute_stddev(samples) ==
  IF Len(samples) < 2 THEN [num |-> 0, den |-> 1]
  ELSE LET n == Len(samples)
       IN [num |-> SumSqDev(samples, n, Sum(samples)),
           den |-> n * n * StddevDivisor(n)]
\* the quotient num/den of two integers
Quot(a, b) == [num |-> a, den |-> b]

\* the quotient (num/den) * 100^exp100, for throughput figures whose divisor
\* or dividend is a median kept in hundredths; den = 0 is a division by zero
QuotS(a, b, e) == [num |-> a, den |-> b, exp100 |-> e]

\* a checksum: the sum of terms elements that each hold the value obtained
\* from val by fma_apps applications of x -> x*alpha + beta
Chk(terms, val, apps) == [terms |-> terms, val |-> val, fma_apps |-> apps]

\* its numeric value when no fma step is involved
ChkValue(c) == c.terms * c.val

\* ------------------------------------------------- size strings
\* a size string is a sequence of one-character strings
DigitVal ==
  "0" :> 0 @@ "1" :> 1 @@ "2" :> 2 @@ "3" :> 3 @@ "4" :> 4 @@
  "5" :> 5 @@ "6" :> 6 @@ "7" :> 7 @@ "8" :> 8 @@ "9" :> 9

IsDigit(c) == c \in DOMAIN DigitVal
IsSpace(c) == c = " "

ToLower ==
  "K" :> "k" @@ "M" :> "m" @@ "G" :> "g" @@ "B" :> "b" @@ "I" :> "i"

tolower(c) == IF c \in DOMAIN ToLower THEN ToLower[c] ELSE c

RECURSIVE TrimLeft(_)
TrimLeft(s) ==
  IF s # <<>> /\ IsSpace(Head(s)) THEN TrimLeft(Tail(s)) ELSE s

RECURSIVE TrimRight(_)
TrimRight(s) ==
  IF s # <<>> /\ IsSpace(s[Len(s)]) THEN TrimRight(SubSeq(s, 1, Len(s) - 1))
  ELSE s

trim(s) == TrimRight(TrimLeft(s))

\* length of the numeric prefix: digits and at most one '.'
RECURSIVE NumPrefixLen(_, _, _)
NumPrefixLen(s, i, seen_dot) ==
  IF i >= Len(s) THEN i
  ELSE IF IsDigit(s[i + 1]) THEN NumPrefixLen(s, i + 1, seen_dot)
  ELSE IF s[i + 1] = "." /\ ~seen_dot THEN NumPrefixLen(s, i + 1, TRUE)
  ELSE i

RECURSIVE DigitsValue(_)
DigitsValue(s) ==
  IF s = <<>> THEN 0
  ELSE 10 * DigitsValue(SubSeq(s, 1, Len(s) - 1)) + DigitVal[s[Len(s)]]

RECURSIVE Pow10(_)
Pow10(d) == IF d = 0 THEN 1 ELSE 10 * Pow10(d - 1)

SelectDigits(s) == SelectSeq(s, IsDigit)

\* position of the '.' in the prefix, 0 when there is none
RECURSIVE DotPos(_, _)
DotPos(s, i) ==
  IF i > Len(s) THEN 0 ELSE IF s[i] = "." THEN i ELSE DotPos(s, i + 1)

UnitMult(unit) ==
  CASE unit = <<>> \/ unit = <<"b">>                     -> 1
    [] unit = <<"k", "b">>                                -> 1000
    [] unit = <<"m", "b">>                                -> 1000 * 1000
    [] unit = <<"g", "b">>                                -> 1000 * 1000 * 1000
    [] unit = <<"k", "i", "b">> \/ unit = <<"k", "i">>    -> 1024
    [] unit = <<"m", "i", "b">> \/ unit = <<"m", "i">>    -> 1024 * 1024
    [] unit = <<"g", "i", "b">> \/ unit = <<"g", "i">>    -> 1024 * 1024 * 1024
    [] OTHER                                              -> 0

\* ---- decimal numbers too large for the integers of the model: sequences of
\* digits, most significant first, without leading zeros
DecDigits(s) == [k \in 1..Len(s) |-> DigitVal[s[k]]]

RECURSIVE DecStrip(_)
DecStrip(d) == IF d # <<>> /\ Head(d) = 0 THEN DecStrip(Tail(d)) ELSE d

RECURSIVE DecLexLess(_, _)
DecLexLess(a, b) ==
  IF a = <<>> THEN FALSE
  ELSE IF Head(a) # Head(b) THEN Head(a) < Head(b)
  ELSE DecLexLess(Tail(a), Tail(b))

DecLess(a, b) ==
  IF Len(a) # Len(b) THEN Len(a) < Len(b) ELSE DecLexLess(a, b)

RECURSIVE DecTimesSmall(_, _, _)
DecTimesSmall(d, m, carry) ==
  IF d = <<>> THEN
    (IF carry = 0 THEN <<>> ELSE DecTimesSmall(<<>>, m, carry \div 10)
                                   \o <<carry % 10>>)
  ELSE LET t == d[Len(d)] * m + carry
       IN DecTimesSmall(SubSeq(d, 1, Len(d) - 1), m, t \div 10) \o <<t % 10>>

\* d * m for the unit multipliers 1000^k and 1024^k
RECURSIVE DecTimes(_, _)
DecTimes(d, m) ==
  IF m <= 1024 THEN DecTimesSmall(d, m, 0)
  ELSE IF m % 1000 = 0 THEN DecTimes(DecTimesSmall(d, 1000, 0), m \div 1000)
  ELSE DecTimes(DecTimesSmall(d, 1024, 0), m \div 1024)

DecZeros(k) == [i \in 1..k |-> 0]

\* the decimal strings that std::stod rounds to exactly 2^64: the binary64
\* neighbours of 2^64 are 2^64 - 2048 and 2^64 + 4096
Two64RoundLo == <<1, 8, 4, 4, 6, 7, 4, 4, 0, 7, 3, 7, 0, 9, 5, 5, 0, 5, 9, 2>>
Two64RoundHi == <<1, 8, 4, 4, 6, 7, 4, 4, 0, 7, 3, 7, 0, 9, 5, 5, 3, 6, 6, 4>>
\* 2^64 + 2^14: from here on value * mult exceeds UINT64_MAX whatever the
\* rounding of std::stod and of the long double product
Two64Clear   == <<1, 8, 4, 4, 6, 7, 4, 4, 0, 7, 3, 7, 0, 9, 5, 6, 8, 0, 0, 0>>

Thrown == [ok |-> FALSE, bytes |-> 0, boundary |-> FALSE]

\* parse_size_bytes: ok = FALSE stands for a thrown std::exception.
\* boundary marks value = 2^64 exactly: with an 80- or 128-bit long double
\* bytes > UINT64_MAX holds and overflow_error is thrown; where long double
\* is binary64 (MSVC, AArch64 Darwin) UINT64_MAX converts to 2^64, the test
\* bytes > 2^64 fails and the out-of-range static_cast<uint64_t> is undefined.
parse_size_bytes(text) ==
  LET s == trim(text)
      i == NumPrefixLen(s, 0, FALSE)
      prefix == SubSeq(s, 1, i)
      digits == SelectDigits(prefix)
      dot    == DotPos(prefix, 1)
      fracd  == IF dot = 0 THEN 0 ELSE Len(prefix) - dot
      unit   == [k \in 1..Len(trim(SubSeq(s, i + 1, Len(s)))) |->
                   tolower(trim(SubSeq(s, i + 1, Len(s)))[k])]
      mult   == UnitMult(unit)
      scaled == DecStrip(DecTimes(DecDigits(digits), mult))
  IN  IF s = <<>> THEN Thrown
      ELSE IF i = 0 THEN Thrown
      ELSE IF digits = <<>> THEN Thrown
      ELSE IF mult = 0 THEN Thrown
      ELSE CASE Len(scaled) <= 9 ->
                  [ok |-> TRUE,
                   bytes |-> (2 * DigitsValue(digits) * mult + Pow10(fracd))
                               \div (2 * Pow10(fracd)),
                   boundary |-> FALSE]
             [] Len(scaled) > 9
                  /\ ~DecLess(scaled, DecStrip(Two64Clear \o DecZeros(fracd))) ->
                  Thrown
             [] mult = 1 /\ fracd = 0 /\ ~DecLess(scaled, Two64RoundLo)
                  /\ ~DecLess(Two64RoundHi, scaled) ->
                  [ok |-> FALSE, bytes |-> 0, boundary |-> TRUE]

\* a byte count of 2^63 or more, as delivered by a saturating conversion;
\* no allocation of that many bytes can succeed
HugeBytes == 2147483640

\* what static_cast<std::uint64_t> of the out-of-range value 2^64 may deliver
ConversionOutcomes == {0, HugeBytes}

\* the outcomes of parse_size_bytes over the builds
ParseOutcomes(text) ==
  LET r == parse_size_bytes(text)
  IN IF r.boundary
       THEN {Thrown} \cup { [ok |-> TRUE, bytes |-> b, boundary |-> FALSE] :
                            b \in ConversionOutcomes }
     ELSE {r}
\* ------------------------------------------------- configuration
StreamKernels  == {"copy", "scale", "add", "triad"}
ComputeKinds   == {"flops", "fma", "dot", "saxpy"}
KernelNames    == StreamKernels \cup ComputeKinds \cup {"latency"}

\* outcomes of std::shuffle(idx, mt19937(seed ^ size_bytes)) followed by the
\* sweep engine: the identity order and the reversed order
Shuffles == {"identity", "reverse"}

\* --seed values: the default 14 and another
Seeds == {14, 15}

\* a ^ b on unsigned integers
RECURSIVE BitXor(_, _)
BitXor(a, b) ==
  IF a = 0 THEN b
  ELSE IF b = 0 THEN a
  ELSE (((a % 2) + (b % 2)) % 2) + 2 * BitXor(a \div 2, b \div 2)

\* std::mt19937 rng(seed); std::shuffle(idx.begin(), idx.end(), rng): the
\* order is a fixed function of the 32-bit seed, here one under which both
\* orders occur within a sweep
ShuffleOutcome(key) == IF key % 3 = 0 THEN "identity" ELSE "reverse"

SizeStrings ==
  { <<"6", "4", "M", "B">>, <<"1", "K", "i", "B">>, <<"1", "6">>,
    <<" ", "8", " ">>, <<"4">>, <<>>, <<"x">>, <<"1", "X", "B">>,
    <<"1", ".", "5", "k", "b">>,
    <<"9", "9", "9", "9", "9", "9", "9", "9", "9", "9", "9", "G", "B">>,
    <<"1", "8", "4", "4", "6", "7", "4", "4", "0", "7", "3", "7", "0", "9",
      "5", "5", "1", "6", "1", "6">> }

\* main(): the dispatch from conf.kernel to the entry point
Family(kernel) ==
  IF kernel \in StreamKernels THEN "stream"
  ELSE IF kernel \in ComputeKinds THEN "compute"
  ELSE "latency"

StreamOpOf(kernel) ==
  CASE kernel = "copy"  -> "Copy"
    [] kernel = "scale" -> "Scale"
    [] kernel = "add"   -> "Add"
    [] kernel = "triad" -> "Triad"

Configs ==
  { c \in [kernel : KernelNames, size : SizeStrings, iters : 1..MaxIters,
           warmup : 0..MaxWarmup, prefault : BOOLEAN, aligned : BOOLEAN,
           seed : Seeds] :
      /\ (Family(c.kernel) # "compute" => c.size = <<"6", "4", "M", "B">>)
      /\ (Family(c.kernel) # "latency" => c.seed = 14) }

\* ------------------------------------------------- state
VARIABLES
  conf,         \* const Config& conf
  pc,           \* position of the entry point
  sweep,        \* const auto sweep = build_sweep_bytes()
  si,           \* 1-based position of the range-for in sweep
  loc,          \* locals of the current sweep point
  bufs,         \* the role buffers alive in the current scope
  samples,      \* std::vector<long long> samples
  res,          \* BenchmarkResult& res
  now,          \* std::chrono::steady_clock
  start_point,  \* Timer::start_point
  ktime,        \* environment: ticks the measured invocation number it takes
  phases,       \* history: phases completed by the current sweep point
  iterlog,      \* history: events of the current measured iteration
  calls,        \* history: element counts of the kernel invocations
  attempted,    \* history: sizes whose allocation was attempted
  diag,         \* std::cerr diagnostics
  kern,         \* explicit arrays of the stream kernels
  cyc,          \* explicit node array of build_random_cycle
  drift,        \* deviation of a kernel's result from the exact value
                \* (miscompile or numeric drift); 0 on a sound machine
  live,         \* history: sweep positions whose buffers are allocated
  fn            \* a statistics / validator function evaluated on its own:
                \* arguments, locals, result

vars == <<conf, pc, sweep, si, loc, bufs, samples, res, now, start_point,
          ktime, phases, iterlog, calls, attempted, diag, kern, cyc, drift,
          live, fn>>

NoBufs == [r \in {} |-> 0]

Loc0 ==
  [size_bytes |-> 0, n |-> 0, w |-> 0, it |-> 0, ns |-> 0, steps |-> 0,
   sink |-> 0, checksum |-> Chk(0, 0, 0), full |-> 0, expected |-> 0,
   rinv |-> 0, ainv |-> 0, valid |-> TRUE,
   min_sample |-> 0, max_sample |-> 0, med |-> Quot(0, 100),
   p95 |-> Quot(0, 100), stddev |-> Quot(0, 1), derived |-> QuotS(0, 1, 0)]

Res0 ==
  [sweep_points |-> <<>>, total_ns |-> 0, avg_ns |-> Quot(0, 100),
   bandwidth_gb_s |-> QuotS(0, 1, 0), gflops |-> QuotS(0, 1, 0)]

FnIdle   == [pc |-> "idle"]
KernIdle == [pc |-> "idle"]
CycIdle  == [pc |-> "idle"]

\* the state at the call of an entry point
\* the entry point is called with accumulator r
Started(r) ==
  /\ conf \in Configs
  /\ pc = "entry"
  /\ sweep = <<>>
  /\ si = 1
  /\ loc = Loc0
  /\ bufs = NoBufs
  /\ samples = <<>>
  /\ res = r
  /\ now = 0
  /\ start_point = 0
  /\ ktime \in [1..conf.iters -> 0..MaxTick]
  /\ phases = <<>>
  /\ iterlog = <<>>
  /\ calls = <<>>
  /\ attempted = {}
  /\ diag = <<>>
  /\ kern = KernIdle
  /\ cyc = CycIdle
  /\ live = {}
  /\ fn = FnIdle

Start == Started(Res0)

Init == Start /\ drift = 0

family == Family(conf.kernel)
op     == StreamOpOf(conf.kernel)

\* ------------------------------------------------- buffers
\* A buffer whose n elements all hold the same value is kept as its length
\* and that value; the element-wise kernels keep such a buffer uniform
\* (C7_KernelOutputs below checks this on explicit arrays).
Buf(n, v, how) == [len |-> n, val |-> v, alloc |-> how, touched |-> 0]

HowAligned_vector == "vector"

\* use_aligned = conf.aligned: AlignedBuffer<T>(n, 64), else std::vector
HowAligned == IF conf.aligned THEN "aligned" ELSE "vector"

\* the buffers a sweep point provisions
Provision(n) ==
  CASE family = "stream" ->
         ("A" :> Buf(n, 1, "vector")) @@ ("B" :> Buf(n, 2, "vector"))
           @@ ("C" :> Buf(n, 3, "vector"))
    [] family = "latency" ->
         ("nodes" :> [len |-> n, val |-> 0, alloc |-> HowAligned,
                      touched |-> 0, order |-> "none"])
    [] conf.kernel \in {"flops", "fma"} ->
         ("a" :> [len |-> n, val |-> 1, alloc |-> HowAligned, touched |-> 0,
                  fma_apps |-> 0])
    [] conf.kernel = "dot" ->
         ("x" :> Buf(n, 1, HowAligned)) @@ ("y" :> Buf(n, 2, HowAligned))
    [] conf.kernel = "saxpy" ->
         ("x" :> Buf(n, 1, HowAligned)) @@ ("y" :> Buf(n, 2, HowAligned))
           @@ ("out" :> Buf(n, 0, HowAligned))

WriteBack_zero(t) == 0

\* volatile double t = p[idx]; p[idx] = t;
WriteBack(t) == t

\* prefault: for (idx = 0; idx < n; idx += page_elems) { t = p[idx]; p[idx] = t; }
prefault_touch(b, elem_bytes) ==
  [b EXCEPT !.touched = SampledCount(b.len, Max2(1, PageBytes \div elem_bytes)),
            !.val = WriteBack(@)]

\* kd.fn(A, B, C, s, n) on uniform buffers
stream_fn(b) ==
  [b EXCEPT !["A"].val = kernel_elem(op, b["B"].val, b["C"].val, 3) + drift]

StrideOf_one(n) == 1

StrideOf_ceil(n) == Max2(1, (n + 1023) \div 1024)

\* stride = std::max<std::size_t>(1, n / 1024)
StrideOf(n) == Max2(1, n \div ChecksumTerms)

\* compute_fma_kernel(a, inner) / compute_flops_kernel(a, inner): every element
\* of the vector goes through inner more applications, in place
chain_kernel(b, inner) == [b EXCEPT !["a"].fma_apps = @ + inner]

chain_inline_fresh(b, inner) == [b EXCEPT !["a"].fma_apps = inner]

\* the loop over a_ptr of the aligned mode: v = a_ptr[i]; inner applications;
\* a_ptr[i] = v
chain_inline(b, inner) == [b EXCEPT !["a"].fma_apps = @ + inner]

one_iter_bufs_axpy(b) ==
  CASE conf.kernel \in {"flops", "fma"} ->
         [b EXCEPT !["a"].fma_apps = @ + Inner]
    [] conf.kernel = "dot"   -> b
    [] conf.kernel = "saxpy" ->
         [b EXCEPT !["y"].val = 3 * b["x"].val + b["y"].val,
                   !["out"].val = 3 * b["x"].val + b["y"].val]

\* one_iter of run_compute_bench: the transformed buffers and the value returned
one_iter_bufs(b) ==
  CASE conf.kernel \in {"flops", "fma"} ->
         IF conf.aligned THEN chain_inline(b, Inner)
         ELSE chain_kernel(b, Inner)
    [] conf.kernel = "dot"   -> b
    [] conf.kernel = "saxpy" ->
         [b EXCEPT !["out"].val = 3 * b["x"].val + b["y"].val + drift]

one_iter_value(b, n) ==
  CASE conf.kernel \in {"flops", "fma"} ->
         Chk(SampledCount(n, StrideOf(n)), b["a"].val, b["a"].fma_apps)
    [] conf.kernel = "dot"   -> Chk(n, b["x"].val * b["y"].val + drift, 0)
    [] conf.kernel = "saxpy" ->
         Chk(SampledCount(n, StrideOf(n)), b["out"].val, 0)

StepsOf_unclamped(n) == n

\* steps = std::min<std::size_t>(std::max<std::size_t>(n, min_steps), max_steps)
StepsOf(n) == Min2(Max2(n, MinSteps), MaxSteps)

\* static_cast<std::uint32_t>(w % n) / (it % n): where a chase starts
ChaseStart(i, n) == IF family = "latency" THEN i % n ELSE 0

ShuffleKey_clock(seed, bytes) == BitXor(seed, bytes + now)

\* static_cast<std::uint32_t>(conf.seed) ^ static_cast<std::uint32_t>(size_bytes);
\* the seeds and the sweep sizes are non-negative and below 2^31, so the two
\* conversions keep their values
ShuffleKey(seed, bytes) == BitXor(seed, bytes)

\* chase(start): steps dependent loads over the cycle built from the shuffle
chase(start, steps, n) ==
  IF bufs["nodes"].order = "identity" THEN (start + steps) % n
  ELSE (start + n - (steps % n)) % n

KernelStep(b, n) ==
  CASE family = "stream"  -> stream_fn(b)
    [] family = "latency" -> b
    [] family = "compute" -> one_iter_bufs(b)

\* the value passed to do_not_optimize_away: A[i % n] / sink = chase(i % n)
SinkValue(b, n, i) ==
  CASE family = "stream"  -> b["A"].val
    [] family = "latency" -> chase(ChaseStart(i, n), loc.steps, n)
    [] family = "compute" -> ChkValue(one_iter_value(one_iter_bufs(b), n))

HasTimedChecksum == conf.kernel \in {"flops", "fma", "saxpy"}

MinElems == IF family = "latency" THEN 2 ELSE 1
ElemsOf(bytes) ==
  IF family = "latency" THEN bytes_to_nodes(bytes) ELSE bytes_to_elems(bytes)

Log(ph) == phases' = Append(phases, ph)
Ev(e)   == iterlog' = Append(iterlog, e)

IdleEngines == UNCHANGED <<kern, cyc, ktime, drift, fn>>

Idle == IdleEngines /\ UNCHANGED live

ScopeEnd_leak(l, i) == l

\* the vectors and AlignedBuffers are locals of the loop body (of the
\* function, for run_compute_bench): leaving the scope, normally or by an
\* exception, destroys them
ScopeEnd(l, i) == l \ {i}

\* ------------------------------------------------- entry points
\* run_stream_sweep / run_latency_bench up to the range-for
SweepEnter ==
  /\ pc = "entry" /\ family \in {"stream", "latency"}
  /\ sweep' = IF family = "stream" THEN stream_build_sweep_bytes
              ELSE latency_build_sweep_bytes
  /\ si' = 1
  /\ pc' = "loop"
  /\ Idle
  /\ UNCHANGED <<conf, loc, bufs, samples, res, now, start_point, phases,
                 iterlog, calls, attempted, diag>>

\* run_compute_bench up to init_arrays()
ComputeEnter ==
  /\ pc = "entry" /\ family = "compute"
  /\ \E r \in ParseOutcomes(conf.size) :
     LET n == bytes_to_elems(r.bytes)
     IN IF ~r.ok THEN
          /\ diag' = Append(diag, [what |-> "parse", bytes |-> 0])
          /\ pc' = "returned"
          /\ UNCHANGED <<sweep, loc>>
        ELSE IF n = 0 THEN
          /\ diag' = Append(diag, [what |-> "too_small", bytes |-> r.bytes])
          /\ pc' = "returned"
          /\ UNCHANGED <<sweep, loc>>
        ELSE
          /\ sweep' = <<r.bytes>>
          /\ loc' = [Loc0 EXCEPT !.size_bytes = r.bytes, !.n = n]
          /\ pc' = "alloc"
          /\ UNCHANGED diag
  /\ si' = 1
  /\ Idle
  /\ UNCHANGED <<conf, bufs, samples, res, now, start_point, phases,
                 iterlog, calls, attempted>>

\* for (std::size_t size_bytes : sweep) { n = ...; if (n < min) continue;
LoopHead ==
  /\ pc = "loop"
  /\ IF si > Len(sweep) THEN
       /\ pc' = "returned"
       /\ UNCHANGED <<si, loc, phases, calls, samples>>
     ELSE IF ElemsOf(sweep[si]) < MinElems THEN
       /\ si' = si + 1
       /\ UNCHANGED <<pc, loc, phases, calls, samples>>
     ELSE
       /\ loc' = [Loc0 EXCEPT !.size_bytes = sweep[si],
                              !.n = ElemsOf(sweep[si])]
       /\ phases' = <<>>
       /\ calls' = <<>>
       /\ samples' = <<>>
       /\ pc' = "alloc"
       /\ UNCHANGED si
  /\ Idle
  /\ UNCHANGED <<conf, sweep, bufs, res, now, start_point, iterlog,
                 attempted, diag>>

AfterPrefault == IF family = "latency" THEN "build_cycle" ELSE "warmup"

OnBadAllocLatency_continue == "release"

\* catch (const std::bad_alloc&) { ...; break; }
OnBadAllocLatency == "returned"

\* the role buffers are obtained; std::bad_alloc is caught by
\* run_latency_bench only
Allocate ==
  /\ pc = "alloc"
  /\ attempted' = attempted \cup {loc.size_bytes}
  /\ \/ /\ loc.size_bytes < HugeBytes
        /\ bufs' = Provision(loc.n)
        /\ live' = live \cup {si}
        /\ Log("allocate")
        /\ pc' = IF conf.prefault THEN "prefault" ELSE AfterPrefault
        /\ UNCHANGED diag
     \/ /\ bufs' = NoBufs
        /\ UNCHANGED <<phases, live>>
        /\ IF family = "latency" THEN
             /\ diag' = Append(diag, [what |-> "alloc", bytes |-> loc.size_bytes])
             /\ pc' = OnBadAllocLatency
           ELSE
             /\ pc' = "escaped"
             /\ UNCHANGED diag
  /\ IdleEngines
  /\ UNCHANGED <<conf, sweep, si, loc, samples, res, now, start_point,
                 iterlog, calls>>

Prefault ==
  /\ pc = "prefault"
  /\ bufs' = [r \in DOMAIN bufs |->
               prefault_touch(bufs[r],
                 IF family = "latency" THEN SizeofNode ELSE SizeofDouble)]
  /\ Log("prefault")
  /\ pc' = AfterPrefault
  /\ Idle
  /\ UNCHANGED <<conf, sweep, si, loc, samples, res, now, start_point,
                 iterlog, calls, attempted, diag>>

\* build_random_cycle(nodes, n, seed ^ size_bytes) and the choice of steps;
\* the index vector idx(n) is allocated outside the try block
BuildCycle ==
  /\ pc = "build_cycle"
  /\ \/ /\ bufs' = [bufs EXCEPT !["nodes"].order =
                            ShuffleOutcome(ShuffleKey(conf.seed,
                                                      loc.size_bytes))]
        /\ loc' = [loc EXCEPT !.steps = StepsOf(loc.n)]
        /\ pc' = "warmup"
        /\ UNCHANGED live
     \/ /\ bufs' = NoBufs
        /\ pc' = "escaped"
        /\ live' = ScopeEnd(live, si)
        /\ UNCHANGED loc
  /\ IdleEngines
  /\ UNCHANGED <<conf, sweep, si, samples, res, now, start_point, phases,
                 iterlog, calls, attempted, diag>>

\* for (int w = 0; w < conf.warmup; ++w) { kernel; do_not_optimize_away }
Warmup ==
  /\ pc = "warmup"
  /\ IF loc.w < conf.warmup THEN
       /\ bufs' = KernelStep(bufs, loc.n)
       /\ calls' = Append(calls, [n |-> loc.n, timed |-> FALSE,
                                  start |-> ChaseStart(loc.w, loc.n)])
       /\ loc' = [loc EXCEPT !.w = @ + 1,
                             !.sink = SinkValue(bufs, loc.n, loc.w)]
       /\ UNCHANGED <<pc, phases>>
     ELSE
       /\ Log("warmup")
       /\ pc' = "measure"
       /\ UNCHANGED <<bufs, calls, loc>>
  /\ Idle
  /\ UNCHANGED <<conf, sweep, si, samples, res, now, start_point, iterlog,
                 attempted, diag>>
\* ------------------------------------------------- measured iteration
MeasureCond_short == loc.it + 1 < conf.iters

\* it < conf.iters
MeasureCond == loc.it < conf.iters

\* for (int it = 0; it < conf.iters; ++it) { Timer t; ...
MeasureHead ==
  /\ pc = "measure"
  /\ IF MeasureCond THEN
       /\ iterlog' = <<>>
       /\ pc' = "m_clobber1"
       /\ UNCHANGED phases
     ELSE
       /\ Log("measure")
       /\ pc' = IF family = "stream" THEN "checksum"
                ELSE IF samples = <<>> THEN "release"
                ELSE "stats"
       /\ UNCHANGED iterlog
  /\ Idle
  /\ UNCHANGED <<conf, sweep, si, loc, bufs, samples, res, now, start_point,
                 calls, attempted, diag>>

\* clobber_memory();
MClobber1 ==
  /\ pc = "m_clobber1"
  /\ Ev("clobber")
  /\ pc' = "m_start"
  /\ Idle
  /\ UNCHANGED <<conf, sweep, si, loc, bufs, samples, res, now, start_point,
                 phases, calls, attempted, diag>>

\* t.start();
MStart ==
  /\ pc = "m_start"
  /\ start_point' = now
  /\ Ev("start")
  /\ pc' = "m_kernel"
  /\ Idle
  /\ UNCHANGED <<conf, sweep, si, loc, bufs, samples, res, now, phases,
                 calls, attempted, diag>>

\* kd.fn(...) / sink = chase(it % n) / the transform of one_iter();
\* the clock advances while the kernel runs
MKernel ==
  /\ pc = "m_kernel"
  /\ now' = now + ktime[loc.it + 1]
  /\ bufs' = KernelStep(bufs, loc.n)
  /\ calls' = Append(calls, [n |-> loc.n, timed |-> TRUE,
                             start |-> ChaseStart(loc.it, loc.n)])
  /\ loc' = IF family = "latency"
              THEN [loc EXCEPT !.sink = SinkValue(bufs, loc.n, loc.it)]
            ELSE IF conf.kernel = "dot"
              THEN [loc EXCEPT !.checksum = one_iter_value(bufs, loc.n)]
            ELSE loc
  /\ Ev("kernel")
  /\ pc' = IF HasTimedChecksum THEN "m_kchk" ELSE "m_clobber2"
  /\ Idle
  /\ UNCHANGED <<conf, sweep, si, samples, res, start_point, phases,
                 attempted, diag>>

\* return checksum_sampled(...) at the end of one_iter() (flops, fma, saxpy)
MKernelChecksum ==
  /\ pc = "m_kchk"
  /\ loc' = [loc EXCEPT !.checksum = one_iter_value(bufs, loc.n)]
  /\ Ev("checksum")
  /\ pc' = "m_clobber2"
  /\ Idle
  /\ UNCHANGED <<conf, sweep, si, bufs, samples, res, now, start_point,
                 phases, calls, attempted, diag>>

\* clobber_memory();
MClobber2 ==
  /\ pc = "m_clobber2"
  /\ Ev("clobber")
  /\ pc' = "m_stop"
  /\ Idle
  /\ UNCHANGED <<conf, sweep, si, loc, bufs, samples, res, now, start_point,
                 phases, calls, attempted, diag>>

\* const long long ns = t.elapsed_ns();
MStop ==
  /\ pc = "m_stop"
  /\ loc' = [loc EXCEPT !.ns = now - start_point]
  /\ Ev("stop")
  /\ pc' = "m_push"
  /\ Idle
  /\ UNCHANGED <<conf, sweep, si, bufs, samples, res, now, start_point,
                 phases, calls, attempted, diag>>

\* samples.push_back(ns);
MPush ==
  /\ pc = "m_push"
  /\ samples' = Append(samples, loc.ns)
  /\ Ev("append")
  /\ pc' = "m_sink"
  /\ Idle
  /\ UNCHANGED <<conf, sweep, si, loc, bufs, res, now, start_point, phases,
                 calls, attempted, diag>>

\* do_not_optimize_away(A[it % n]) / (sink) / (checksum); ++it
MSink ==
  /\ pc = "m_sink"
  /\ loc' = [loc EXCEPT !.it = @ + 1,
                        !.sink = IF family = "stream"
                                   THEN SinkValue(bufs, loc.n, loc.it)
                                 ELSE @]
  /\ Ev("sink")
  /\ pc' = "measure"
  /\ Idle
  /\ UNCHANGED <<conf, sweep, si, bufs, samples, res, now, start_point,
                 phases, calls, attempted, diag>>

\* ------------------------------------------------- after the loop
\* stride = max(1, n / 1024); sum_sample = Validator::checksum_sampled(A, stride)
Checksum ==
  /\ pc = "checksum"
  /\ loc' = [loc EXCEPT !.checksum =
               Chk(SampledCount(loc.n, StrideOf(loc.n)), bufs["A"].val, 0)]
  /\ Log("checksum")
  /\ pc' = IF loc.size_bytes <= FullCheckLimit THEN "validate" ELSE "stats"
  /\ Idle
  /\ UNCHANGED <<conf, sweep, si, bufs, samples, res, now, start_point,
                 iterlog, calls, attempted, diag>>

StreamTol_loose == <<1000000, 1000000>>

\* Validator::nearly_equal(full, expected_sum, 1e-9, 1e-9): <<1/rtol, 1/atol>>
StreamTol == <<1000000000, 1000000000>>

ComputeTol_bothloose == <<1000000, 1000000>>

\* Validator::nearly_equal(checksum, expected, 1e-9, 1e-6): <<1/rtol, 1/atol>>
ComputeTol == <<1000000000, 1000000>>

AfterValidate_fatal(ok) ==
  IF ~ok THEN "returned" ELSE IF family = "stream" THEN "stats" ELSE "emit"

\* what follows the comparison: the if-statement only prints, so the
\* statistics (stream) or the ResultPoint (dot, saxpy) follow either way
AfterValidate(ok) == IF family = "stream" THEN "stats" ELSE "emit"

\* the comparison with the expected value: the full checksum of the stream
\* sweep, the dot / saxpy check of run_compute_bench
Validate ==
  /\ pc = "validate"
  /\ LET full == IF family = "stream" THEN loc.n * bufs["A"].val
                 ELSE ChkValue(loc.checksum)
         expected ==
           IF family = "stream" THEN loc.n * expected_val(op, 3)
           ELSE IF conf.kernel = "dot" THEN 2 * loc.n
           ELSE 5 * ((loc.n + StrideOf(loc.n) - 1) \div StrideOf(loc.n))
         tol == IF family = "stream" THEN StreamTol ELSE ComputeTol
         ok == nearly_equal(full, expected, tol[1], tol[2])
     IN /\ loc' = [loc EXCEPT !.full = full, !.expected = expected,
                               !.rinv = tol[1], !.ainv = tol[2],
                               !.valid = ok]
        /\ diag' = IF ok THEN diag
                   ELSE Append(diag, [what |-> "validation",
                                      bytes |-> loc.size_bytes])
        /\ pc' = AfterValidate(ok)
  /\ Log("validate")
  /\ Idle
  /\ UNCHANGED <<conf, sweep, si, bufs, samples, res, now, start_point,
                 iterlog, calls, attempted>>

std_sort_skipped(v) == v

\* std::sort(samples.begin(), samples.end());
std_sort(v) == Sort(v)

gflops_unguarded(flops_per_iter, med) == QuotS(flops_per_iter, med.num, 1)

\* const double gflops = (med > 0.0) ? (flops_per_iter / med) : 0.0;
gflops(flops_per_iter, med) ==
  IF med.num > 0 THEN QuotS(flops_per_iter, med.num, 1) ELSE QuotS(0, 1, 0)

\* std::sort(samples); min/max; percentile_ns; compute_stddev; throughput
Aggregate ==
  /\ pc = "stats"
  /\ samples' = std_sort(samples)
  /\ LET sorted == std_sort(samples)
         med == Quot(percentile_ns_x100(sorted, 50), 100)
         flops_per_iter ==
           IF conf.kernel \in {"flops", "fma"} THEN loc.n * 2 * Inner
           ELSE loc.n * 2
     IN loc' = [loc EXCEPT
          !.min_sample = sorted[1],
          !.max_sample = sorted[Len(sorted)],
          !.med = med,
          !.p95 = Quot(percentile_ns_x100(sorted, 95), 100),
          !.stddev = compute_stddev(sorted),
          !.derived =
            CASE family = "stream" ->
                   QuotS(bytes_multiplier(op) * loc.size_bytes, med.num, 1)
              [] family = "latency" ->
                   IF loc.steps > 0 THEN QuotS(med.num, loc.steps, -1)
                   ELSE QuotS(0, 1, 0)
              [] family = "compute" -> gflops(flops_per_iter, med)]
  /\ Log("aggregate")
  /\ pc' = IF conf.kernel \in {"dot", "saxpy"} THEN "validate" ELSE "emit"
  /\ Idle
  /\ UNCHANGED <<conf, sweep, si, bufs, res, now, start_point, iterlog,
                 calls, attempted, diag>>

Point ==
  [kernel |-> CASE family = "stream"  -> stream_op_name(op)
                [] family = "latency" -> "ptr_chase"
                [] family = "compute" -> conf.kernel,
   bytes |-> loc.size_bytes,
   median_ns |-> loc.med,
   p95_ns |-> loc.p95,
   min_ns |-> loc.min_sample,
   max_ns |-> loc.max_sample,
   stddev_ns |-> loc.stddev,
   bandwidth_gb_s |-> IF family = "stream" THEN loc.derived
                      ELSE QuotS(0, 1, 0),
   ns_per_access |-> IF family = "latency" THEN loc.derived
                     ELSE QuotS(0, 1, 0),
   checksum |-> IF family = "latency" THEN Chk(1, loc.sink, 0)
                ELSE loc.checksum]

push_back_front(v, pt) == <<pt>> \o v

\* std::vector::push_back
push_back(v, pt) == Append(v, pt)

\* res.sweep_points.push_back(pt); run_compute_bench also sets the aggregates
Emit ==
  /\ pc = "emit"
  /\ res' = IF family = "compute"
              THEN [res EXCEPT !.sweep_points = push_back(@, Point),
                               !.gflops = loc.derived,
                               !.avg_ns = loc.med,
                               !.total_ns = 0]
            ELSE [res EXCEPT !.sweep_points = push_back(@, Point)]
  /\ Log("emit")
  /\ pc' = "release"
  /\ Idle
  /\ UNCHANGED <<conf, sweep, si, loc, bufs, samples, now, start_point,
                 iterlog, calls, attempted, diag>>

\* end of the loop body (or of run_compute_bench): the buffers are destroyed
Release ==
  /\ pc = "release"
  /\ bufs' = NoBufs
  /\ live' = ScopeEnd(live, si)
  /\ Log("release")
  /\ IF family = "compute" THEN pc' = "returned" /\ UNCHANGED si
     ELSE pc' = "loop" /\ si' = si + 1
  /\ IdleEngines
  /\ UNCHANGED <<conf, sweep, loc, samples, res, now, start_point, iterlog,
                 calls, attempted, diag>>

Next ==
  \/ SweepEnter \/ ComputeEnter \/ LoopHead \/ Allocate \/ Prefault
  \/ BuildCycle \/ Warmup \/ MeasureHead \/ MClobber1 \/ MStart
  \/ MKernel \/ MKernelChecksum \/ MClobber2 \/ MStop \/ MPush \/ MSink
  \/ Checksum \/ Validate \/ Aggregate \/ Emit \/ Release

Spec == Init /\ [][Next]_vars

\* the entry points on a machine whose kernels deliver a result that is off
\* by one per element, the case the validation exists to report
InitFault ==
  /\ Start
  /\ drift = 1
  /\ ~conf.aligned
  /\ \A i \in DOMAIN ktime : ktime[i] = 0

SpecFault == InitFault /\ [][Next]_vars

\* an accumulator an earlier invocation has already written to
PriorPoint ==
  [kernel |-> "dot", bytes |-> 16, median_ns |-> Quot(100, 100),
   p95_ns |-> Quot(100, 100), min_ns |-> 1, max_ns |-> 1,
   stddev_ns |-> Quot(0, 1), bandwidth_gb_s |-> QuotS(0, 1, 0),
   ns_per_access |-> QuotS(0, 1, 0), checksum |-> Chk(2, 2, 0)]

PriorRes ==
  [sweep_points |-> <<PriorPoint>>, total_ns |-> 5, avg_ns |-> Quot(100, 100),
   bandwidth_gb_s |-> QuotS(1, 1, 0), gflops |-> QuotS(4, 1, 0)]

\* the entry points called on an accumulator that already holds a point
InitPrior ==
  /\ Started(PriorRes)
  /\ drift = 0
  /\ ~conf.aligned
  /\ conf.warmup = 0

SpecPrior == InitPrior /\ [][Next]_vars

Terminated == pc \in {"returned", "escaped"}

\* ------------------------------------------------- explicit stream kernels
\* The sweep engine at rest, for the specifications of the single functions.
ConfOff ==
  [kernel |-> "copy", size |-> <<>>, iters |-> 1, warmup |-> 0,
   prefault |-> FALSE, aligned |-> FALSE, seed |-> 14]

EngineOff ==
  /\ conf = ConfOff /\ pc = "off" /\ sweep = <<>> /\ si = 1 /\ loc = Loc0
  /\ bufs = NoBufs /\ samples = <<>> /\ res = Res0 /\ now = 0
  /\ start_point = 0 /\ ktime = <<0>> /\ phases = <<>> /\ iterlog = <<>>
  /\ calls = <<>>
  /\ attempted = {} /\ diag = <<>> /\ drift = 0 /\ live = {}

EngineVars == <<conf, pc, sweep, si, loc, bufs, samples, res, now,
                start_point, ktime, phases, iterlog, calls, attempted, diag,
                drift, live, fn>>

Fill(n, v) == [i \in 1..n |-> v]

\* std::vector<double> A(n, 1.0), B(n, 2.0), C(n, 3.0); const double s = 3.0;
KernInit ==
  /\ EngineOff
  /\ cyc = CycIdle
  /\ fn = FnIdle
  /\ \E o \in StreamOps, n \in 1..MaxElems :
       kern = [pc |-> "call", op |-> o, n |-> n, A |-> Fill(n, 1),
               B |-> Fill(n, 2), C |-> Fill(n, 3), s |-> 3, i |-> 0,
               k |-> 0, full |-> 0, sampled |-> 0]

\* kd.fn(A.data(), B.data(), C.data(), s, n) is entered
KCall ==
  /\ kern.pc = "call" /\ kern.k < MaxCalls
  /\ kern' = [kern EXCEPT !.pc = "loop", !.i = 0]
  /\ UNCHANGED <<EngineVars, cyc>>

\* for (i = 0; i < n; ++i) A[i] = f(B[i], C[i], s)
KElem ==
  /\ kern.pc = "loop" /\ kern.i < kern.n
  /\ kern' = [kern EXCEPT
       !.A[kern.i + 1] =
          kernel_elem(kern.op, kern.B[kern.i + 1], kern.C[kern.i + 1], kern.s),
       !.i = @ + 1]
  /\ UNCHANGED <<EngineVars, cyc>>

KReturn ==
  /\ kern.pc = "loop" /\ kern.i >= kern.n
  /\ kern' = [kern EXCEPT !.pc = "call", !.k = @ + 1]
  /\ UNCHANGED <<EngineVars, cyc>>

\* Validator::checksum_full(A) and Validator::checksum_sampled(A, stride)
KChecksum ==
  /\ kern.pc = "call"
  /\ kern' = [kern EXCEPT
       !.pc = "checked",
       !.full = checksum_full(kern.A),
       !.sampled = checksum_sampled(kern.A, StrideOf(kern.n))]
  /\ UNCHANGED <<EngineVars, cyc>>

KernNext == KCall \/ KElem \/ KReturn \/ KChecksum

SpecKernel == KernInit /\ [][KernNext]_vars

\* ------------------------------------------------- explicit cycle builder
Perms(n) ==
  { f \in [0..(n - 1) -> 0..(n - 1)] :
      \A a, b \in 0..(n - 1) : f[a] = f[b] => a = b }

\* nodes value-initialised; idx(n) filled with 0..n-1
CycInit ==
  /\ EngineOff
  /\ kern = KernIdle
  /\ fn = FnIdle
  /\ \E n \in 2..MaxNodes :
       cyc = [pc |-> "shuffle", n |-> n, idx |-> [i \in 0..(n - 1) |-> i],
              next |-> [i \in 0..(n - 1) |-> 0], i |-> 0]

\* std::shuffle(idx.begin(), idx.end(), rng): any permutation may result
CShuffle ==
  /\ cyc.pc = "shuffle"
  /\ \E f \in Perms(cyc.n) : cyc' = [cyc EXCEPT !.idx = f, !.pc = "link"]
  /\ UNCHANGED <<EngineVars, kern>>

\* for (i = 0; i + 1 < n; ++i) nodes[idx[i]].next = idx[i + 1];
CLink ==
  /\ cyc.pc = "link" /\ cyc.i + 1 < cyc.n
  /\ cyc' = [cyc EXCEPT !.next[cyc.idx[cyc.i]] = cyc.idx[cyc.i + 1],
                        !.i = @ + 1]
  /\ UNCHANGED <<EngineVars, kern>>

CloseTarget_second(c) == c.idx[1]

\* the node the last shuffled node is linked to: idx[0]
CloseTarget(c) == c.idx[0]

\* nodes[idx[n - 1]].next = idx[0];
CClose ==
  /\ cyc.pc = "link" /\ ~(cyc.i + 1 < cyc.n)
  /\ cyc' = [cyc EXCEPT !.next[cyc.idx[cyc.n - 1]] = CloseTarget(cyc),
                        !.pc = "built"]
  /\ UNCHANGED <<EngineVars, kern>>

CycNext == CShuffle \/ CLink \/ CClose

SpecCycle == CycInit /\ [][CycNext]_vars

\* cur after k applications of cur = nodes[cur].next
RECURSIVE Follow(_, _, _)
Follow(next, cur, k) == IF k = 0 THEN cur ELSE Follow(next, next[cur], k - 1)
\* ------------------------------------------------- percentile_ns on its own
SampleValues == {10, 20, 30, 40}

\* sample vectors of up to MaxSamples elements, in any order
RECURSIVE SeqsUpTo(_, _)
SeqsUpTo(S, k) ==
  IF k = 0 THEN {<<>>}
  ELSE LET shorter == SeqsUpTo(S, k - 1)
       IN shorter \cup { Append(q, x) : q \in shorter, x \in S }

Percents == {0, 10, 25, 50, 75, 90, 95, 100}

\* everything but fn
RestVars == <<conf, pc, sweep, si, loc, bufs, samples, res, now, start_point,
              ktime, phases, iterlog, calls, attempted, diag, drift, live,
              kern, cyc>>

\* ------------------------------------------------- checksum_sampled, stepwise
\* element counts: around the stride changes, and the bandwidth sweep's
SampledNs ==
  {0, 1, 2, 3, 1023, 1024, 1025, 1536, 2047, 2048, 2049, 3071, 3072, 4095}
    \cup { bytes_to_elems(stream_build_sweep_bytes[k]) : k \in 1..15 }

\* stride = std::max<std::size_t>(1, n / 1024) at the call sites, and the
\* stride 0 the function itself provides for
SmpInit ==
  /\ EngineOff /\ kern = KernIdle /\ cyc = CycIdle
  /\ \E n \in SampledNs, zero \in BOOLEAN :
       /\ zero => n <= 3
       /\ fn = [pc |-> "call", n |-> n,
                stride |-> IF zero THEN 0 ELSE StrideOf(n),
                i |-> 0, terms |-> 0, top |-> 0]

\* if (data.empty()) return 0.0; if (stride == 0) stride = 1; sum = 0.0
SmpEnter ==
  /\ fn.pc = "call"
  /\ fn' = IF fn.n = 0 THEN [fn EXCEPT !.pc = "done"]
           ELSE [fn EXCEPT !.pc = "loop",
                           !.stride = IF @ = 0 THEN 1 ELSE @]
  /\ UNCHANGED RestVars

\* for (i = 0; i < size; i += stride) sum += data[i]; on data of ones the sum
\* is the number of terms; top is the largest index read
SmpStep ==
  /\ fn.pc = "loop" /\ fn.i < fn.n
  /\ fn' = [fn EXCEPT !.terms = @ + 1, !.top = fn.i, !.i = @ + fn.stride]
  /\ UNCHANGED RestVars

\* return sum;
SmpExit ==
  /\ fn.pc = "loop" /\ ~(fn.i < fn.n)
  /\ fn' = [fn EXCEPT !.pc = "done"]
  /\ UNCHANGED RestVars

SmpNext == SmpEnter \/ SmpStep \/ SmpExit

SpecSampled == SmpInit /\ [][SmpNext]_vars

\* ------------------------------------------------- AlignedBuffer<T>
\* Objects are numbered 1..MaxBuffers; a block is a number 1..MaxBlocks (0 is
\* nullptr) and the heap records what has happened to it.
Buffers == 1..MaxBuffers
Blocks  == 1..MaxBlocks

\* storage no object lives in
NoObject == [alive |-> FALSE, ptr_ |-> 0, n_ |-> 0, alignment_ |-> 0]

\* T* ptr_ = nullptr; std::size_t n_ = 0; std::size_t alignment_ = 0;
DefaultMembers == [alive |-> TRUE, ptr_ |-> 0, n_ |-> 0, alignment_ |-> 0]

\* std::free / _aligned_free of block p; a second free of a block is recorded
free(heap, p) ==
  [heap EXCEPT ![p] = IF @ = "live" THEN "freed" ELSE "twice"]

\* void reset(): the state with object o reset
reset(st, o) ==
  IF st.obj[o].ptr_ = 0 THEN st
  ELSE [st EXCEPT !.heap = free(st.heap, st.obj[o].ptr_),
                  !.obj[o].ptr_ = 0, !.obj[o].n_ = 0,
                  !.obj[o].alignment_ = 0]

MovedFrom_keep(b) == b

\* other.ptr_ = nullptr; other.n_ = 0; other.alignment_ = 0;
MovedFrom(b) == [b EXCEPT !.ptr_ = 0, !.n_ = 0, !.alignment_ = 0]

\* AlignedBuffer& operator=(AlignedBuffer&& other) noexcept
move_assign(st, o, other) ==
  IF o = other THEN st
  ELSE LET r == reset(st, o)
       IN  [r EXCEPT !.obj[o].ptr_ = r.obj[other].ptr_,
                     !.obj[o].n_ = r.obj[other].n_,
                     !.obj[o].alignment_ = r.obj[other].alignment_,
                     !.obj[other] = MovedFrom(r.obj[other])]

AbInit ==
  /\ EngineOff /\ kern = KernIdle /\ cyc = CycIdle
  /\ fn = [pc |-> "buffers", obj |-> [o \in Buffers |-> NoObject],
           heap |-> [b \in Blocks |-> "unused"],
           last |-> [op |-> "none", dst |-> 0, src |-> 0]]

Did(st, what, dst, src) ==
  /\ fn' = [st EXCEPT !.last = [op |-> what, dst |-> dst, src |-> src]]
  /\ UNCHANGED RestVars

\* AlignedBuffer() = default;
AbDefault ==
  /\ fn.pc = "buffers"
  /\ \E o \in Buffers :
       /\ ~fn.obj[o].alive
       /\ Did([fn EXCEPT !.obj[o] = DefaultMembers], "default", o, 0)

\* AlignedBuffer(std::size_t n, std::size_t alignment): posix_memalign /
\* _aligned_malloc hands out a block not in use, or fails (std::bad_alloc
\* leaves no object behind)
AbConstruct ==
  /\ fn.pc = "buffers"
  /\ \E o \in Buffers, n \in {0, 2}, alignment \in {0, 64} :
       /\ ~fn.obj[o].alive
       /\ \/ /\ n = 0
             /\ Did([fn EXCEPT !.obj[o] =
                        [alive |-> TRUE, ptr_ |-> 0, n_ |-> 0,
                         alignment_ |-> alignment]], "construct", o, 0)
          \/ /\ n # 0
             /\ \E p \in Blocks :
                  /\ fn.heap[p] = "unused"
                  /\ \A q \in Blocks : q < p => fn.heap[q] # "unused"
                  /\ Did([fn EXCEPT !.heap[p] = "live",
                                    !.obj[o] =
                                      [alive |-> TRUE, ptr_ |-> p, n_ |-> n,
                                       alignment_ |-> IF alignment = 0
                                                        THEN SizeofDouble
                                                      ELSE alignment]],
                         "construct", o, 0)
          \/ /\ n # 0
             /\ Did(fn, "bad_alloc", o, 0)

\* AlignedBuffer(AlignedBuffer&& other) noexcept { *this = std::move(other); }
AbMoveConstruct ==
  /\ fn.pc = "buffers"
  /\ \E o, other \in Buffers :
       /\ ~fn.obj[o].alive /\ fn.obj[other].alive
       /\ Did(move_assign([fn EXCEPT !.obj[o] = DefaultMembers], o, other),
              "move_construct", o, other)

\* a = std::move(b), a = std::move(a)
AbMoveAssign ==
  /\ fn.pc = "buffers"
  /\ \E o, other \in Buffers :
       /\ fn.obj[o].alive /\ fn.obj[other].alive
       /\ Did(move_assign(fn, o, other), "move_assign", o, other)

\* a.reset()
AbReset ==
  /\ fn.pc = "buffers"
  /\ \E o \in Buffers :
       /\ fn.obj[o].alive
       /\ Did(reset(fn, o), "reset", o, 0)

\* ~AlignedBuffer() { reset(); }
AbDestroy ==
  /\ fn.pc = "buffers"
  /\ \E o \in Buffers :
       /\ fn.obj[o].alive
       /\ Did([reset(fn, o) EXCEPT !.obj[o] = NoObject], "destroy", o, 0)

AbNext ==
  \/ AbDefault \/ AbConstruct \/ AbMoveConstruct \/ AbMoveAssign
  \/ AbReset \/ AbDestroy

SpecBuffer == AbInit /\ [][AbNext]_vars

\* the caller holds a sample vector and is about to call percentile_ns
PctInit ==
  /\ EngineOff /\ kern = KernIdle /\ cyc = CycIdle
  /\ \E q \in SeqsUpTo(SampleValues, MaxSamples), p \in Percents :
       fn = [pc |-> "call", caller |-> q, given |-> q, samples |-> <<>>,
             p |-> p, result |-> 0]

\* percentile_ns(std::vector<long long> samples, double p): by-value copy
PctCall ==
  /\ fn.pc = "call"
  /\ fn' = [fn EXCEPT !.pc = "body", !.samples = fn.caller]
  /\ UNCHANGED RestVars

\* the body: empty check, std::sort of the copy, interpolation
PctBody ==
  /\ fn.pc = "body"
  /\ fn' = [fn EXCEPT !.pc = "done", !.samples = Sort(fn.samples),
                       !.result = percentile_ns_x100(fn.samples, fn.p)]
  /\ UNCHANGED RestVars

PctNext == PctCall \/ PctBody

SpecPercentile == PctInit /\ [][PctNext]_vars

\* ------------------------------------------------- compute_stddev on its own
StddevExample == <<2, 4, 4, 4, 5, 5, 7, 9>>

StdInit ==
  /\ EngineOff /\ kern = KernIdle /\ cyc = CycIdle
  /\ \E q \in SeqsUpTo(SampleValues, MaxSamples) \cup {StddevExample} :
       fn = [pc |-> "call", samples |-> q, result |-> [num |-> 0, den |-> 1]]

\* compute_stddev(const std::vector<double>& samples)
StdCall ==
  /\ fn.pc = "call"
  /\ fn' = [fn EXCEPT !.pc = "done", !.result = compute_stddev(fn.samples)]
  /\ UNCHANGED RestVars

StdNext == StdCall

SpecStddev == StdInit /\ [][StdNext]_vars

\* ------------------------------------------------- nearly_equal on its own
\* tolerances <<1/rtol, 1/atol>>; 1e9 and 1e6 are those of the callers
Tolerances ==
  { <<1, 1>>, <<2, 1>>, <<2, 2>>, <<4, 2>>, <<10, 10>>,
    <<1000000000, 1000000000>>, <<1000000000, 1000000>> }

NeInit ==
  /\ EngineOff /\ kern = KernIdle /\ cyc = CycIdle
  /\ \E a \in (-MaxValue)..MaxValue, b \in (-MaxValue)..MaxValue,
        t \in Tolerances :
       fn = [pc |-> "call", a |-> a, b |-> b, rinv |-> t[1], ainv |-> t[2],
             result |-> FALSE]

\* Validator::nearly_equal(a, b, rtol, atol)
NeCall ==
  /\ fn.pc = "call"
  /\ fn' = [fn EXCEPT !.pc = "done",
                       !.result = nearly_equal(fn.a, fn.b, fn.rinv, fn.ainv)]
  /\ UNCHANGED RestVars

NeNext == NeCall

SpecNearlyEqual == NeInit /\ [][NeNext]_vars

\* ------------------------------------------------- properties
PointBytes == [i \in 1..Len(res.sweep_points) |-> res.sweep_points[i].bytes]

IsPrefix(s1, s2) == Len(s1) <= Len(s2) /\ SubSeq(s2, 1, Len(s1)) = s1

AllocDiags == { i \in 1..Len(diag) : diag[i].what = "alloc" }

\* C1: when obtaining a buffer fails at any sweep size, the entry point
\* (run_stream_sweep, run_compute_bench, run_latency_bench) does not let the
\* failure escape: the call ends by returning to its caller.
C1_AllocationFailureReturns == Terminated => pc = "returned"

SmallerSizes(limit) == SelectSeq(sweep, LAMBDA b : b < limit)

\* C2: in run_latency_bench, when the node-buffer allocation fails at sweep
\* size s, the sweep stops there: no larger size is attempted, and the
\* accumulator holds exactly the points of the sweep sizes smaller than s,
\* in sweep order; a point once appended is never modified.
C2_LatencyStopsAtFailedSize ==
  /\ [](\A i \in AllocDiags :
          /\ family = "latency"
          /\ pc = "returned"
          /\ \A b \in attempted : b <= diag[i].bytes
          /\ PointBytes = SmallerSizes(diag[i].bytes))
  /\ [][family = "latency" => IsPrefix(res.sweep_points, res.sweep_points')]_vars

C2_Witness ==
  /\ pc = "returned" /\ family = "latency"
  /\ \E i \in AllocDiags : diag[i].bytes = 16384
  /\ Len(res.sweep_points) = 2
\* the sweep point whose buffers were just released, having emitted a point
PointDone ==
  /\ pc \in {"loop", "returned"}
  /\ phases # <<>>
  /\ phases[Len(phases)] = "release"
  /\ \E i \in 1..Len(phases) : phases[i] = "emit"

Compared == SelectSeq(phases, LAMBDA ph : ph # "checksum")

OptPrefault == IF conf.prefault THEN <<"prefault">> ELSE <<>>

C4_TimedRegionOnlyKernel ==
  (pc = "measure" /\ loc.it > 0) =>
    iterlog = <<"clobber", "start", "kernel", "clobber", "stop", "append",
                "sink">>

\* C5: for every sweep point that reaches the statistics, the kernel has been
\* invoked exactly warmup + iters times on the same element count; the first
\* warmup invocations are untimed and append no sample, each of the
\* following iters invocations is timed and appends one sample, so that the
\* sample set has length iters.
C5_WarmupPlusItersCalls ==
  /\ pc = "stats" =>
       /\ Len(calls) = conf.warmup + conf.iters
       /\ \A c \in 1..Len(calls) :
            /\ calls[c].n = loc.n
            /\ calls[c].timed = (c > conf.warmup)
       /\ Len(samples) = conf.iters
  /\ pc = "warmup" => samples = <<>> /\ Len(calls) = loc.w
  /\ pc = "measure" => Len(samples) = loc.it
                         /\ Len(calls) = conf.warmup + loc.it

C5_Witness ==
  /\ pc = "stats" /\ conf.kernel = "copy"
  /\ conf.iters = 2 /\ conf.warmup = 1 /\ Len(samples) = 2
  /\ Len(calls) = 3 /\ ~calls[1].timed /\ calls[3].timed

\* C6 (as claimed): for kernel copy the checksum carried by the ResultPoint
\* of a sweep size equals 2.0 * n with n = size_bytes / 8.
C6_CopyChecksumIsTwoN ==
  \A i \in 1..Len(res.sweep_points) :
    res.sweep_points[i].kernel = "stream_copy" =>
      ChkValue(res.sweep_points[i].checksum)
        = 2 * (res.sweep_points[i].bytes \div 8)

\* C6 (amended): for kernel copy the checksum carried by the ResultPoint of
\* a sweep size is the sampled checksum, 2.0 times the number of sampled
\* elements ceil(n / stride) with stride = max(1, n / 1024), which is
\* 2.0 * 1024 for every size of the bandwidth sweep; the sum 2.0 * n of all
\* elements is what the comparison at sizes up to 8 MiB uses.
C6_CopyChecksumIsSampled ==
  /\ \A i \in 1..Len(res.sweep_points) :
       res.sweep_points[i].kernel = "stream_copy" =>
         /\ res.sweep_points[i].checksum.fma_apps = 0
         /\ ChkValue(res.sweep_points[i].checksum) = 2 * 1024
  /\ (pc = "stats" /\ conf.kernel = "copy" /\ loc.size_bytes <= 8388608) =>
       loc.full = 2 * (loc.size_bytes \div 8) /\ loc.valid

C6_Witness ==
  /\ conf.kernel = "copy" /\ conf.iters = 2 /\ conf.warmup = 1
  /\ Len(res.sweep_points) >= 1
  /\ res.sweep_points[1].bytes = 32768
  /\ ChkValue(res.sweep_points[1].checksum) = 2048

KernelFactor(o) ==
  CASE o = "Copy" -> 2 [] o = "Scale" -> 6 [] o = "Add" -> 5 [] o = "Triad" -> 11

\* C7: with B = 2.0, C = 3.0 and s = 3.0, after any number k >= 1 of
\* invocations of a bandwidth kernel on n elements every A[i] is 2 (Copy),
\* 6 (Scale), 5 (Add) or 11 (Triad), checksum_full of the output is that value
\* times n, and B and C are unchanged.
C7_KernelOutputs ==
  (kern.pc \in {"call", "checked"} /\ kern.k >= 1) =>
    /\ \A i \in 1..kern.n : kern.A[i] = KernelFactor(kern.op)
    /\ kern.B = [i \in 1..kern.n |-> 2]
    /\ kern.C = [i \in 1..kern.n |-> 3]
    /\ kern.pc = "checked" => kern.full = KernelFactor(kern.op) * kern.n

C7_Witness ==
  /\ kern.pc = "checked" /\ kern.op = "Triad" /\ kern.k = 2 /\ kern.n = 3
  /\ kern.full = 33

\* C8: for every node count n >= 2 and every outcome of the shuffle, after
\* build_random_cycle following next exactly n times from any node returns to
\* it, and the n nodes visited on the way are pairwise distinct.
C8_SingleCycle ==
  cyc.pc = "built" =>
    \A st \in 0..(cyc.n - 1) :
      /\ Follow(cyc.next, st, cyc.n) = st
      /\ \A j, k \in 0..(cyc.n - 1) :
           j < k => Follow(cyc.next, st, j) # Follow(cyc.next, st, k)

C8_Witness ==
  /\ cyc.pc = "built" /\ cyc.n = 4
  /\ cyc.idx = (0 :> 2 @@ 1 :> 0 @@ 2 :> 3 @@ 3 :> 1)
  /\ cyc.next = (0 :> 3 @@ 1 :> 2 @@ 2 :> 0 @@ 3 :> 1)
Doubling(sq) == \A i \in 2..Len(sq) : sq[i] = 2 * sq[i - 1] /\ sq[i] > sq[i - 1]

PcGroup ==
  CASE pc = "entry"       -> 0
    [] pc = "loop"        -> 1
    [] pc = "alloc"       -> 2
    [] pc = "prefault"    -> 3
    [] pc = "build_cycle" -> 4
    [] pc = "warmup"      -> 5
    [] pc = "checksum"    -> 7
    [] pc = "validate"    -> IF family = "stream" THEN 8 ELSE 10
    [] pc = "stats"       -> 9
    [] pc = "emit"        -> 11
    [] pc = "release"     -> 12
    [] pc \in {"returned", "escaped"} -> 31
    [] OTHER              -> 6

PcMicro ==
  CASE pc = "m_clobber1" -> 1
    [] pc = "m_start"    -> 2
    [] pc = "m_kernel"   -> 3
    [] pc = "m_kchk"     -> 4
    [] pc = "m_clobber2" -> 5
    [] pc = "m_stop"     -> 6
    [] pc = "m_push"     -> 7
    [] pc = "m_sink"     -> 8
    [] OTHER             -> 0

Rank ==
  (((si * 32 + PcGroup) * (MaxWarmup + 2) + loc.w) * (MaxIters + 2) + loc.it)
    * 16 + PcMicro

\* the positions at which an action of the entry point is enabled: each
\* action is guarded by its position alone (SweepEnter and ComputeEnter share
\* "entry" and split on the family)
CanStep ==
  pc \in {"entry", "loop", "alloc", "prefault", "build_cycle", "warmup",
          "measure", "m_clobber1", "m_start", "m_kernel", "m_kchk",
          "m_clobber2", "m_stop", "m_push", "m_sink", "checksum", "validate",
          "stats", "emit", "release"}

ValidationDiags == { i \in 1..Len(diag) : diag[i].what = "validation" }

LastPoint == res.sweep_points[Len(res.sweep_points)]

\* C11: when a checksum comparison fails (full checksum of a bandwidth sweep
\* point, dot / saxpy comparison of the compute family) a diagnostic is the
\* only effect: the ResultPoint of that point is still appended and carries
\* the statistics of the measured samples, and a bandwidth sweep goes on to
\* the next size, ending with a point for each of its 15 sizes.
C11_ValidationFailureNonFatal ==
  /\ (pc = "release" /\ ~loc.valid) =>
       /\ res.sweep_points # <<>>
       /\ LastPoint.bytes = loc.size_bytes
       /\ Len(samples) = conf.iters
       /\ LastPoint.min_ns = samples[1]
       /\ LastPoint.max_ns = samples[Len(samples)]
       /\ LastPoint.median_ns = Quot(percentile_ns_x100(samples, 50), 100)
       /\ LastPoint.p95_ns = Quot(percentile_ns_x100(samples, 95), 100)
       /\ \E i \in ValidationDiags : diag[i].bytes = loc.size_bytes
  /\ pc \in {"loop", "returned"} =>
       \A i \in ValidationDiags :
         \E j \in 1..Len(res.sweep_points) :
           res.sweep_points[j].bytes = diag[i].bytes
  /\ (pc = "returned" /\ family = "stream") =>
       PointBytes = sweep /\ Len(res.sweep_points) = 15

C11_Witness ==
  /\ pc = "returned" /\ family = "stream" /\ conf.kernel = "triad"
  /\ Cardinality(ValidationDiags) = 9
  /\ Len(res.sweep_points) = 15

UInt64Max == <<1, 8, 4, 4, 6, 7, 4, 4, 0, 7, 3, 7, 0, 9, 5, 5, 1, 6, 1, 5>>

\* the size strings the entry point has to reject: empty, no numeric prefix,
\* unsupported unit, a value above UINT64_MAX, or fewer than 8 bytes
SizeRejected(text) ==
  LET s == trim(text)
      i == NumPrefixLen(s, 0, FALSE)
      prefix == SubSeq(s, 1, i)
      digits == SelectDigits(prefix)
      dot    == DotPos(prefix, 1)
      fracd  == IF dot = 0 THEN 0 ELSE Len(prefix) - dot
      unit   == [k \in 1..Len(trim(SubSeq(s, i + 1, Len(s)))) |->
                   tolower(trim(SubSeq(s, i + 1, Len(s)))[k])]
      mult   == UnitMult(unit)
  IN  \/ s = <<>>
      \/ i = 0
      \/ digits = <<>>
      \/ mult = 0
      \/ DecLess(UInt64Max \o DecZeros(fracd),
                 DecStrip(DecTimes(DecDigits(digits), mult)))
      \/ parse_size_bytes(text).ok /\ parse_size_bytes(text).bytes < 8

\* C12: when the size string cannot be parsed (empty, no numeric prefix,
\* unsupported unit, overflow) or denotes fewer than 8 bytes,
\* run_compute_bench goes from its entry straight to its return: it appends
\* no ResultPoint, leaves gflops, avg_ns and total_ns as they were, reports a
\* diagnostic, and lets no exception escape.
C12_MalformedSizeReturns ==
  (family = "compute" /\ SizeRejected(conf.size)) =>
    /\ pc \in {"entry", "returned"}
    /\ res = Res0
    /\ pc = "returned" => diag # <<>>

Pos(ph) == { i \in 1..Len(phases) : phases[i] = ph }

\* C13: at any moment at most one sweep point's buffers are allocated, and
\* they are those of the current sweep position; they are released after
\* that point's validation and emission and before the allocation for the
\* next size (also when the point is left by an exception); a sweep point is
\* started only when every earlier size has been attempted and finished.
C13_OnePointAtATime ==
  /\ Cardinality(live) <= 1
  /\ live \subseteq {si}
  /\ pc \in {"entry", "loop", "alloc", "returned", "escaped"} => live = {}
  /\ (live = {}) = (bufs = NoBufs)
  /\ \A r \in Pos("release") :
       /\ r = Len(phases)
       /\ \A k \in Pos("validate") \cup Pos("emit") \cup Pos("allocate") : k < r
  /\ (live # {} /\ family \in {"stream", "latency"}) =>
       /\ Len(res.sweep_points) \in {si - 1, si}
       /\ attempted = { sweep[k] : k \in 1..si }
       /\ Pos("allocate") = {1}

C13_Witness ==
  /\ pc = "warmup" /\ family = "stream" /\ si = 3 /\ live = {3}
  /\ Len(res.sweep_points) = 2 /\ attempted = {32768, 65536, 131072}

\* the k-th smallest element (k from 0) of a non-empty sequence
OrderStat(q, k) ==
  CHOOSE v \in { q[i] : i \in 1..Len(q) } :
    /\ Cardinality({ i \in 1..Len(q) : q[i] < v }) <= k
    /\ k < Cardinality({ i \in 1..Len(q) : q[i] <= v })

\* C14: for every non-empty sample vector in any order and every p in
\* [0,100], percentile_ns returns sorted[lo]*(1-frac) + sorted[hi]*frac with
\* idx = (p/100)*(n-1), lo = floor(idx), hi = ceil(idx), frac = idx - lo, lo
\* and hi in 0..n-1; p = 0 gives the minimum, p = 100 the maximum, p = 50
\* of [10,20,30,40] gives 25; the caller's vector is left as it was.
\* (result is kept in hundredths.)
C14_PercentileInterpolates ==
  (fn.pc = "done" /\ fn.given # <<>>) =>
    LET q      == fn.given
        n      == Len(q)
        idx100 == fn.p * (n - 1)
        lo     == idx100 \div 100
        frac   == idx100 % 100
        hi     == IF frac = 0 THEN lo ELSE lo + 1
    IN /\ lo \in 0..(n - 1) /\ hi \in 0..(n - 1)
       /\ fn.result = OrderStat(q, lo) * (100 - frac) + OrderStat(q, hi) * frac
       /\ fn.p = 0 => fn.result = 100 * OrderStat(q, 0)
       /\ fn.p = 100 => fn.result = 100 * OrderStat(q, n - 1)
       /\ \A i \in 1..n : OrderStat(q, 0) <= q[i] /\ q[i] <= OrderStat(q, n - 1)
       /\ (q = <<10, 20, 30, 40>> /\ fn.p = 50) => fn.result = 2500
       /\ fn.caller = fn.given

C14_Witness ==
  /\ fn.pc = "done" /\ fn.given = <<40, 10, 30, 20>> /\ fn.p = 50
  /\ fn.result = 2500 /\ fn.caller = <<40, 10, 30, 20>>

\* C15: compute_stddev returns the population standard deviation: for n >= 2
\* samples its square is (sum of x^2)/n - ((sum of x)/n)^2, the mean squared
\* deviation with divisor n (not n - 1), so that [2,4,4,4,5,5,7,9] gives
\* exactly 2; for a single-element or empty sample set it returns 0.
C15_PopulationStddev ==
  fn.pc = "done" =>
    LET q == fn.samples
        n == Len(q)
        v == fn.result
    IN /\ v.den > 0 /\ v.num >= 0
       /\ n >= 2 => v.num * (n * n)
                       = (n * SumSq(q) - Sum(q) * Sum(q)) * v.den
       /\ n < 2 => v.num = 0
       /\ q = StddevExample => v.num = 2 * 2 * v.den

C15_Witness ==
  /\ fn.pc = "done" /\ fn.samples = StddevExample
  /\ fn.result.num = 4 * fn.result.den /\ fn.result.den = 512

\* C16: nearly_equal(a, b, rtol, atol) is true exactly when
\* |a - b| <= atol + rtol * |b|, the relative term being scaled by the second
\* argument only; a difference beyond the bound gives false.  With
\* rtol = 1/rinv and atol = 1/ainv the bound is rinv + ainv * |b| over
\* rinv * ainv; the small tolerances keep the products within the integers.
C16_NearlyEqualBound ==
  fn.pc = "done" =>
    IF fn.rinv <= 10
      THEN fn.result =
             (Abs(fn.a - fn.b) * fn.rinv * fn.ainv
                <= fn.rinv + fn.ainv * Abs(fn.b))
    \* the tolerances of the callers (1e-9, 1e-6): integers within MaxValue
    \* are nearly equal exactly when they are equal
    ELSE fn.result = (fn.a = fn.b)

C16_Witness ==
  /\ fn.pc = "done" /\ fn.a = 2 /\ fn.b = 4 /\ fn.rinv = 2 /\ fn.ainv = 2
  /\ fn.result
  /\ ~nearly_equal(4, 2, 2, 2)

MultiplierOf(name) ==
  CASE name \in {"stream_copy", "stream_scale"} -> 2
    [] name \in {"stream_add", "stream_triad"}  -> 3

StreamNames == {"stream_copy", "stream_scale", "stream_add", "stream_triad"}

\* C17: every ResultPoint of the bandwidth family has bandwidth_gb_s =
\* multiplier * size_bytes / median_ns, the multiplier being 2 for Copy and
\* Scale and 3 for Add and Triad, and bandwidth_gb_s > 0 whatever the samples
\* are: the dividend is positive and the median is never negative (a median
\* of 0 ns makes the IEEE quotient +infinity, kept here as divisor 0).
C17_BandwidthFromMedian ==
  \A i \in 1..Len(res.sweep_points) :
    LET pt == res.sweep_points[i]
    IN pt.kernel \in StreamNames =>
         /\ pt.median_ns.den = 100
         /\ pt.bandwidth_gb_s
              = QuotS(MultiplierOf(pt.kernel) * pt.bytes, pt.median_ns.num, 1)
         /\ pt.bandwidth_gb_s.num > 0
         /\ pt.bandwidth_gb_s.den >= 0

C17_Witness ==
  /\ Len(res.sweep_points) = 15 /\ conf.kernel = "triad" /\ conf.iters = 2
  /\ res.sweep_points[9].bytes = 8388608
  /\ res.sweep_points[9].median_ns = Quot(50, 100)
  /\ res.sweep_points[9].bandwidth_gb_s = QuotS(25165824, 50, 1)

\* the sizes of the diagnosed comparisons, in the order they were made
DiagBytes == [i \in 1..Len(diag) |-> diag[i].bytes]

PastComparison == pc \in {"emit", "release"} \/ (family = "stream" /\ pc = "stats")

\* C19 as stated: dot, saxpy and the flops / fma chains are compared with
\* rtol = atol = 1e-6, the bandwidth kernels with rtol = atol = 1e-9.
C19_AllComputeLoosened ==
  PastComparison =>
    /\ family = "compute" =>
         /\ Pos("validate") # {}
         /\ loc.rinv = 1000000 /\ loc.ainv = 1000000
    /\ (family = "stream" /\ Pos("validate") # {}) =>
         loc.rinv = 1000000000 /\ loc.ainv = 1000000000

\* C19: dot and saxpy are compared with their expected value using
\* rtol = 1e-9 and the loosened atol = 1e-6; the flops and fma chains are
\* not compared with any expected value; the bandwidth kernels are compared
\* using rtol = atol = 1e-9.
C19_DotSaxpyLoosenedAtol ==
  PastComparison =>
    /\ (family = "compute" /\ conf.kernel \in {"dot", "saxpy"}) =>
         /\ Cardinality(Pos("validate")) = 1
         /\ loc.rinv = 1000000000 /\ loc.ainv = 1000000
         /\ loc.valid = nearly_equal(loc.full, loc.expected, 1000000000,
                                     1000000)
         /\ loc.valid = (drift = 0)
    /\ (family = "compute" /\ conf.kernel \in {"flops", "fma"}) =>
         /\ Pos("validate") = {}
         /\ loc.rinv = 0 /\ loc.ainv = 0 /\ diag = <<>>
    /\ (family = "stream" /\ Pos("validate") # {}) =>
         loc.rinv = 1000000000 /\ loc.ainv = 1000000000

C19_Witness ==
  /\ pc = "emit" /\ conf.kernel = "saxpy" /\ drift = 1
  /\ loc.rinv = 1000000000 /\ loc.ainv = 1000000 /\ ~loc.valid
  /\ loc.n = 2 /\ loc.expected = 10 /\ loc.full = 12 /\ Len(diag) = 1

\* the roles a sweep point of the selected kernel provisions
Roles ==
  CASE family = "stream"               -> {"A", "B", "C"}
    [] family = "latency"              -> {"nodes"}
    [] conf.kernel \in {"flops", "fma"} -> {"a"}
    [] conf.kernel = "dot"             -> {"x", "y"}
    [] conf.kernel = "saxpy"           -> {"x", "y", "out"}

\* C20 as stated: in each of the three families every buffer of a sweep
\* point comes from AlignedBuffer (alignment 64) when the aligned flag is
\* set, and from natural allocation when it is not.
C20_AlignedInEveryFamily ==
  bufs # NoBufs =>
    \A r \in DOMAIN bufs :
      bufs[r].alloc = IF conf.aligned THEN "aligned" ELSE "vector"

\* C20: in the latency and compute families every buffer of a sweep point
\* comes from AlignedBuffer (alignment 64) when the aligned flag is set and
\* from natural allocation (std::vector) when it is not; in the bandwidth
\* family A, B and C come from natural allocation whether or not the flag
\* is set.
C20_AlignedWhereSupported ==
  bufs # NoBufs =>
    /\ DOMAIN bufs = Roles
    /\ family \in {"latency", "compute"} =>
         \A r \in DOMAIN bufs :
           bufs[r].alloc = IF conf.aligned THEN "aligned" ELSE "vector"
    /\ family = "stream" => \A r \in DOMAIN bufs : bufs[r].alloc = "vector"

C20_Witness ==
  /\ pc = "measure" /\ conf.kernel = "saxpy" /\ conf.aligned
  /\ DOMAIN bufs = {"x", "y", "out"}
  /\ \A r \in DOMAIN bufs : bufs[r].alloc = "aligned" /\ bufs[r].len = loc.n

\* the buffers after k kernel invocations on buffers b
RECURSIVE Invoked(_, _, _)
Invoked(b, n, k) == IF k = 0 THEN b ELSE KernelStep(Invoked(b, n, k - 1), n)

\* the checksum a finished point carries when its buffers go from their
\* initial values straight to the warmup, with no page touched before
UntouchedChecksum ==
  LET n == loc.n
      b == Invoked(Provision(n), n, conf.warmup + conf.iters)
      last == (conf.iters - 1) % n
  IN  CASE family = "stream" ->
             Chk(SampledCount(n, StrideOf(n)), b["A"].val, 0)
        [] family = "latency" ->
             Chk(1, IF ShuffleOutcome(BitXor(conf.seed, loc.size_bytes))
                         = "identity"
                      THEN (last + loc.steps) % n
                    ELSE (last + n - (loc.steps % n)) % n, 0)
        [] family = "compute" -> one_iter_value(b, n)

ElemBytes == IF family = "latency" THEN 64 ELSE 8

\* C21: when the prefault flag is set, before the first warmup or measured
\* iteration of a sweep point one element per 4096-byte stride of each role
\* buffer (ceil(n / P) elements, P = 4096 / element size) is read and
\* written back with the same value; no element's value changes, so the
\* ResultPoint checksum of every point is the one it has with the flag
\* unset.
C21_PrefaultKeepsValues ==
  /\ pc = "prefault" => conf.prefault /\ calls = <<>> /\ loc.w = 0 /\ loc.it = 0
  /\ (bufs # NoBufs /\ pc \notin {"alloc", "prefault"}) =>
       /\ (Pos("prefault") # {}) = conf.prefault
       /\ \A r \in DOMAIN bufs :
            /\ bufs[r].touched =
                 IF conf.prefault
                   THEN (bufs[r].len + (4096 \div ElemBytes) - 1)
                          \div (4096 \div ElemBytes)
                 ELSE 0
            /\ calls = <<>> => bufs[r].val = Provision(loc.n)[r].val
  /\ \A i \in Pos("prefault") :
       \A j \in Pos("warmup") \cup Pos("measure") : i < j
  /\ (pc = "release" /\ Pos("emit") # {}) => LastPoint.checksum = UntouchedChecksum

C21_Witness ==
  /\ pc = "release" /\ conf.prefault /\ conf.kernel = "triad"
  /\ loc.size_bytes = 8388608 /\ bufs["B"].touched = 2048
  /\ bufs["B"].val = 2 /\ bufs["C"].val = 3
  /\ LastPoint.checksum = Chk(1024, 11, 0)

Aggregates(r) == <<r.total_ns, r.avg_ns, r.bandwidth_gb_s, r.gflops>>

\* C22: every step of an entry point keeps the points the accumulator
\* already holds (those present before the call and those appended earlier
\* in the sweep) as they are and where they are, adding points at the end
\* only; a step of run_stream_sweep or run_latency_bench leaves total_ns,
\* avg_ns, bandwidth_gb_s and gflops unchanged.
C22_AppendOnly ==
  [][/\ Len(res'.sweep_points) \in
          {Len(res.sweep_points), Len(res.sweep_points) + 1}
     /\ SubSeq(res'.sweep_points, 1, Len(res.sweep_points)) = res.sweep_points
     /\ family \in {"stream", "latency"} => Aggregates(res') = Aggregates(res)
    ]_vars

C22_Witness ==
  /\ pc = "returned" /\ family = "stream" /\ Len(res.sweep_points) = 16
  /\ res.sweep_points[1] = PriorPoint /\ res.sweep_points[16].bytes = 536870912
  /\ Aggregates(res) = <<5, Quot(100, 100), QuotS(1, 1, 0), QuotS(4, 1, 0)>>

\* what the configuration alone says about the i-th point of the call
BytesAt(i) ==
  CASE family = "stream"  -> 32768 * 2 ^ (i - 1)
    [] family = "latency" -> 4096 * 2 ^ (i - 1)
    [] family = "compute" -> parse_size_bytes(conf.size).bytes

NameAt(i) ==
  CASE family = "stream"  -> stream_op_name(op)
    [] family = "latency" -> "ptr_chase"
    [] family = "compute" -> conf.kernel

ChecksumAt(i) ==
  LET bytes == BytesAt(i)
      n     == IF family = "latency" THEN bytes \div 64 ELSE bytes \div 8
      b     == Invoked(Provision(n), n, conf.warmup + conf.iters)
      steps == Min2(Max2(n, 200000), 5000000)
      last  == (conf.iters - 1) % n
  IN  CASE family = "stream" ->
             Chk(SampledCount(n, StrideOf(n)), b["A"].val, 0)
        [] family = "latency" ->
             Chk(1, IF ShuffleOutcome(BitXor(conf.seed, bytes)) = "identity"
                      THEN (last + steps) % n
                    ELSE (last + n - (steps % n)) % n, 0)
        [] family = "compute" -> one_iter_value(b, n)

\* C23: the kernel name, the bytes and the checksum of every ResultPoint an
\* invocation has appended are fixed by the configuration (kernel, size,
\* iters, warmup, seed, prefault, aligned) and the point's position, so two
\* invocations with the same configuration agree on them at every position
\* both reach, whatever the timing samples are; the order of the latency
\* cycle of a size is the one the shuffle gives for seed XOR size_bytes.
C23_PointsFixedByConfig ==
  /\ pc \in {"release", "returned", "escaped"} =>
     \A i \in 1..Len(res.sweep_points) :
       /\ res.sweep_points[i].kernel = NameAt(i)
       /\ res.sweep_points[i].bytes = BytesAt(i)
       /\ res.sweep_points[i].checksum = ChecksumAt(i)
  /\ (family = "latency" /\ bufs # NoBufs /\ bufs["nodes"].order # "none") =>
       bufs["nodes"].order =
         ShuffleOutcome(BitXor(conf.seed, loc.size_bytes))

C23_Witness ==
  /\ pc = "returned" /\ family = "latency" /\ conf.seed = 14
  /\ conf.iters = 2 /\ ktime = <<1, 0>>
  /\ Len(res.sweep_points) = 17
  /\ res.sweep_points[1].checksum # res.sweep_points[2].checksum

\* C24: a run_compute_bench invocation whose size string parses to at least
\* 8 bytes, with iters >= 1 and no allocation failure, returns having
\* appended exactly one ResultPoint (kernel = the kind, bytes = the parsed
\* size, bandwidth_gb_s = 0.0) and set gflops = flops_per_iter / median_ns
\* with flops_per_iter = 2 * n * 64 for flops / fma and 2 * n for dot /
\* saxpy (gflops = 0 when the median is 0), avg_ns = median_ns, total_ns = 0.
C24_ComputeOnePoint ==
  (/\ family = "compute" /\ pc = "returned"
   /\ ~SizeRejected(conf.size) /\ parse_size_bytes(conf.size).ok
   /\ parse_size_bytes(conf.size).bytes >= 8
   /\ attempted # {} /\ conf.iters >= 1) =>
     LET n   == parse_size_bytes(conf.size).bytes \div 8
         fpi == IF conf.kernel \in {"flops", "fma"} THEN 2 * n * 64 ELSE 2 * n
         med == LastPoint.median_ns
     IN  /\ Len(res.sweep_points) = Len(PriorRes.sweep_points) + 1
         /\ SubSeq(res.sweep_points, 1, 1) = PriorRes.sweep_points
         /\ LastPoint.kernel = conf.kernel
         /\ LastPoint.bytes = parse_size_bytes(conf.size).bytes
         /\ LastPoint.bandwidth_gb_s = QuotS(0, 1, 0)
         /\ med = Quot(percentile_ns_x100(samples, 50), 100)
         /\ res.gflops = IF med.num = 0 THEN QuotS(0, 1, 0)
                         ELSE QuotS(fpi, med.num, 1)
         /\ res.avg_ns = med
         /\ res.total_ns = 0
         /\ res.bandwidth_gb_s = PriorRes.bandwidth_gb_s

C24_Witness ==
  /\ pc = "returned" /\ conf.kernel = "fma" /\ conf.iters = 2
  /\ ktime = <<1, 1>> /\ Len(res.sweep_points) = 2
  /\ LastPoint.bytes = 16 /\ LastPoint.median_ns = Quot(100, 100)
  /\ res.gflops = QuotS(256, 100, 1) /\ res.total_ns = 0

C26_SampledTerms ==
  /\ fn.pc = "loop" =>
       /\ fn.stride >= 1
       /\ fn.i = fn.terms * fn.stride
       /\ fn.terms > 0 => fn.top = (fn.terms - 1) * fn.stride /\ fn.top < fn.n
  /\ fn.pc = "done" =>
       /\ fn.n = 0 => fn.terms = 0
       /\ fn.n > 0 =>
            /\ fn.terms = (fn.n + fn.stride - 1) \div fn.stride
            /\ fn.stride = IF fn.n < 2048 THEN 1 ELSE fn.n \div 1024
            /\ fn.n < 1024 => fn.terms = fn.n
            /\ fn.n >= 1024 => 1024 <= fn.terms /\ fn.terms <= 2047
            /\ (\E k \in 0..14 : fn.n = 4096 * 2 ^ k) => fn.terms = 1024
       /\ fn.terms = SampledCount(fn.n, fn.stride)

C26_Witness ==
  /\ fn.pc = "done" /\ fn.n = 2047 /\ fn.stride = 1 /\ fn.terms = 2047
  /\ fn.top = 2046

\* C27: for every element count n >= 1, warmup >= 0 and iters >= 1, with
\* x = 1.0, y = 2.0 and coefficient 3.0 the dot checksum is 2.0 * n and the
\* saxpy sampled checksum is 5.0 * ceil(n / stride), stride = max(1, n /
\* 1024): the values the validator compares against; neither depends on how
\* many times the kernel has been invoked, x and y being left as they were.
C27_DotSaxpyExpected ==
  (family = "compute" /\ conf.kernel \in {"dot", "saxpy"} /\ drift = 0) =>
    /\ bufs # NoBufs => bufs["x"].val = 1 /\ bufs["y"].val = 2
    /\ (pc \in {"m_clobber2", "m_stop", "m_push", "m_sink", "measure",
                "stats", "validate", "emit", "release"}
        /\ loc.it + Len(samples) > 0 /\ calls # <<>>
        /\ calls[Len(calls)].timed) =>
         LET n      == loc.n
             stride == IF n < 1024 THEN 1 ELSE n \div 1024
         IN  /\ n >= 1
             /\ conf.kernel = "dot" => ChkValue(loc.checksum) = 2 * n
             /\ conf.kernel = "saxpy" =>
                  ChkValue(loc.checksum) = 5 * ((n + stride - 1) \div stride)
    /\ pc \in {"emit", "release"} =>
         /\ loc.expected = ChkValue(loc.checksum)
         /\ loc.full = loc.expected
         /\ loc.valid

C27_Witness ==
  /\ pc = "release" /\ conf.kernel = "saxpy" /\ loc.n = 8000000
  /\ conf.warmup = 1 /\ conf.iters = 2 /\ Len(calls) = 3
  /\ ChkValue(LastPoint.checksum) = 5125 /\ loc.expected = 5125

\* the buffers whose data() is block p
Owners(p) == { o \in Buffers : fn.obj[o].alive /\ fn.obj[o].ptr_ = p }

C29_StatsOrdered ==
  \A i \in 1..Len(res.sweep_points) :
    LET pt == res.sweep_points[i]
    IN  /\ 100 * pt.min_ns <= pt.median_ns.num
        /\ pt.median_ns.num <= pt.p95_ns.num
        /\ pt.p95_ns.num <= 100 * pt.max_ns
        /\ pt.median_ns.den = 100 /\ pt.p95_ns.den = 100
        /\ pt.stddev_ns.num >= 0 /\ pt.stddev_ns.den > 0

C29_Witness ==
  /\ pc = "release" /\ family = "latency" /\ conf.iters = 2
  /\ ktime = <<1, 0>> /\ samples = <<0, 1>>
  /\ LastPoint.min_ns = 0 /\ LastPoint.median_ns = Quot(50, 100)
  /\ LastPoint.p95_ns = Quot(95, 100) /\ LastPoint.max_ns = 1
  /\ LastPoint.stddev_ns.num > 0

\* C30: for flops and fma the buffer is updated in place and never filled
\* again between invocations: after w warmup and m measured invocations
\* every element is 1.0 taken through x -> x * alpha + beta 64 * (w + m)
\* times, in the aligned code path as in the other, so the checksum of the
\* ResultPoint is that of the buffer after conf.warmup + conf.iters
\* invocations and differs between any two values of that sum.
C30_ChainAccumulates ==
  (family = "compute" /\ conf.kernel \in {"flops", "fma"}) =>
    /\ bufs # NoBufs =>
         /\ bufs["a"].val = 1
         /\ bufs["a"].fma_apps = 64 * Len(calls)
         /\ Len(calls) = loc.w + loc.it + (IF pc \in {"m_kchk", "m_clobber2",
                                                       "m_stop", "m_push",
                                                       "m_sink"}
                                             THEN 1 ELSE 0)
    /\ pc = "release" =>
         /\ LastPoint.checksum.val = 1
         /\ LastPoint.checksum.fma_apps = 64 * (conf.warmup + conf.iters)
         /\ LastPoint.checksum.terms =
              SampledCount(loc.n, IF loc.n < 1024 THEN 1 ELSE loc.n \div 1024)

C30_Witness ==
  /\ pc = "release" /\ conf.kernel = "flops" /\ conf.aligned
  /\ conf.warmup = 1 /\ conf.iters = 2 /\ loc.n = 128
  /\ LastPoint.checksum = Chk(128, 1, 192)

\* C10: a bandwidth or latency sweep that meets no allocation failure
\* terminates (every step of an entry point increases a bounded progress
\* measure, and a step is possible until the entry point has ended) and has
\* then emitted exactly one ResultPoint per size of its sweep list, in sweep
\* order: 15 points for bandwidth, 17 for latency, no size skipped.
C10_OnePointPerSize ==
  /\ []((pc = "returned" /\ family \in {"stream", "latency"}
           /\ AllocDiags = {})
          => /\ PointBytes = sweep
             /\ Len(res.sweep_points) = IF family = "stream" THEN 15 ELSE 17
             /\ \A i \in 1..Len(sweep) : ElemsOf(sweep[i]) >= MinElems)
  /\ [][Rank' > Rank /\ Rank' <= 19 * 32 * (MaxWarmup + 2) * (MaxIters + 2) * 16]_vars
  /\ [](~Terminated => CanStep)

C10_Witness ==
  /\ pc = "returned" /\ family = "latency" /\ AllocDiags = {}
  /\ Len(res.sweep_points) = 17
  /\ res.sweep_points[1].bytes = 4096
  /\ res.sweep_points[17].bytes = 268435456
====
